---- MODULE Spec2Model ----
(***************************************************************************)
(* Model of the audio core of Nexus V2:                                    *)
(*   - the live voice session controller of ChatInterface                  *)
(*     (src/unnamed/part_001), specification SpecLive, with its parts      *)
(*     SpecSched (playback scheduler) and SpecHybrid (session, capture     *)
(*     and text submissions);                                              *)
(*   - the narration cache and loader of AudioPlayer                       *)
(*     (src/components/AudioPlayer.tsx), specification SpecNarr, with its  *)
(*     part SpecLoader;                                                    *)
(*   - the PCM codec of src/utils/audioUtils.ts, specification SpecCodec.  *)
(* JavaScript runs handlers to completion on one thread, so every action   *)
(* is one handler, or the part of an async function between two awaits.    *)
(* Handlers are written as functions from the state record to the state    *)
(* record, composed in the order the source calls them.  Times are in      *)
(* milliseconds, multiples of TickMs.                                      *)
(***************************************************************************)
EXTENDS Integers, Sequences, FiniteSets, TLC

\* ------------------------------------------------------------------ bounds
MaxConnects == 2      \* connection attempts (connectVoiceSession calls)
MaxClock    == 1      \* ticks the output clock is followed for
MaxAhead    == 2      \* ticks the scheduler may run ahead of the clock bound
MaxTimers   == 1      \* pending turn-complete timers
TickMs      == 500    \* granularity of the modelled clocks
NChunks     == 2      \* chunk identifiers the parent hands to AudioPlayer
MaxLoads    == 3      \* runs of the load effect (mount, chunk changes, retries)
MaxToggles  == 2      \* changes of isPlaying by the parent
MaxSamples  == 2      \* length of the Float32Array handed to the codec
GridStep    == 2049   \* distance of the sample values tried, in 1/SampleDen

\* ------------------------------------------------------- program constants
NULL        == 0      \* useRef(null): no object held
StaleGapMs  == 500    \* playAudioResponse: now + 0.5
GraceMs     == 500    \* handleLiveMessage: setTimeout(..., 500)
DebounceMs  == 1000   \* load effect: setTimeout(loadAudio, 1000)
NegScale    == 32768  \* float32ToBase64: s * 0x8000
PosScale    == 32767  \* float32ToBase64: s * 0x7FFF
DecodeScale == 32768  \* base64ToAudioBuffer: int16[i] / 32768.0

Attempts  == 1..MaxConnects
Durations == {TickMs, 2 * TickMs}
\* inbound LiveServerMessage: the three fields handleLiveMessage reads;
\* audio is the duration of the inline payload, 0 for none.  The handler
\* returns on interrupted before it reads the other two, so one message
\* stands for all interrupted ones.
Messages  == {m \in [interrupted : BOOLEAN, turnComplete : BOOLEAN,
                     audio : {0} \cup Durations] :
                m.interrupted => (~m.turnComplete /\ m.audio = 0)}

VARIABLES
  \* React state of ChatInterface
  isVoiceMode, isConnecting, isConnected, aiSpeaking, isTextLoading,
  \* refs of ChatInterface
  mountedRef, liveSessionRef, inputAudioContextRef, outputAudioContextRef,
  scriptProcessorRef, mediaStreamRef, nextStartTimeRef, activeSourcesRef,
  isInterruptedRef,
  \* browser and transport objects the refs point to
  session,        \* attempt -> "none" | "connecting" | "open" | "closed"
                  \*            | "errored"
  inputCtxOpen,   \* attempts whose 16 kHz context is not closed
  outputCtxOpen,  \* attempts whose 24 kHz context is not closed
  streams,        \* microphone streams whose tracks are not stopped
  processors,     \* script processors not disconnected
  outTime,        \* currentTime of the context outputAudioContextRef holds
  speakTimers,    \* pending setTimeout callbacks of handleLiveMessage
  \* positions of the async functions
  micPc,          \* attempt -> position of its startMicrophone call
  micCtx,         \* attempt -> context its resume() was called on
  textPc,         \* position of handleSendText
  textVoice,      \* isVoiceMode as captured by the running handleSendText
  \* counters
  nConnects,
  \* history
  lastRequest,    \* last toggle of the user: "none" | "connect" | "disconnect"
  turnInterrupted,\* an interrupted message was handled and no turnComplete since
  lastOp,         \* last operation of the scheduler on the current output
                  \* clock: "none"; "stop"; "cut", a stop by an interrupted
                  \* message that found the tail of a live payload scheduled;
                  \* "muted" and "dropped", a live payload was dropped after
                  \* the stop or the cut; "enqueue"; "restart" and "fresh",
                  \* the first enqueue after the stop or the cut
  textTurnDone,   \* a turnComplete was handled since the text submission
  respVoice       \* isVoiceMode when the text response arrived

liveVars == <<isVoiceMode, isConnecting, isConnected, aiSpeaking, isTextLoading,
  mountedRef, liveSessionRef, inputAudioContextRef, outputAudioContextRef,
  scriptProcessorRef, mediaStreamRef, nextStartTimeRef, activeSourcesRef,
  isInterruptedRef, session, inputCtxOpen, outputCtxOpen, streams, processors,
  outTime, speakTimers, micPc, micCtx, textPc, textVoice, nConnects,
  lastRequest, turnInterrupted, lastOp, textTurnDone, respVoice>>

Chunks == 1..NChunks
Loads  == 1..MaxLoads

VARIABLES
  \* props of AudioPlayer
  currentChunk, isPlaying,
  \* React state of AudioPlayer
  progress, isLoading, error,
  \* refs of AudioPlayer
  sourceRef,          \* the current source: [id, chunk], id = NULL for none
  animationFrameRef,  \* playback whose frame request the ref holds, or NULL
  loadingTimeoutRef,  \* load whose timer the ref holds, or NULL
  \* the module-level cache: chunk -> load whose buffer it holds, or NULL
  audioCache,
  \* browser objects
  playerMounted,      \* the component is mounted
  ctxState,           \* "suspended" | "running" | "closed"
  elapsed,            \* ctx.currentTime - startTimeRef.current
  started,            \* sources started and not stopped
  frames,             \* playbacks with a pending updateProgress frame
  \* closures
  loads,              \* load -> closure of one run of the load effect; late is
                      \* history: its fetch resolved with the chunk cached
  nLoads,
  nToggles,
  toggleQ,            \* continuations of the play/pause effect after resume()
  \* history
  lastFinished,       \* chunk of the last onFinish call, or NULL
  finishCount,        \* onFinish calls since the last playBuffer
  replaced,           \* the last playBuffer found a source still current
  reported,           \* last value the loop of the last playBuffer passed
                      \* to setProgress, -1 before its first report
  burst,              \* chunks of the current rapid sequence of requests
  burstFetches        \* chunks of the fetches started since it began

narrVars == <<currentChunk, isPlaying, progress, isLoading, error, sourceRef,
  animationFrameRef, loadingTimeoutRef, audioCache, playerMounted, ctxState,
  elapsed, started, frames, loads, nLoads, nToggles, toggleQ, lastFinished,
  finishCount, replaced, reported, burst, burstFetches>>

\* the codec, followed through one encoding and the decoding of its result
VARIABLES
  samples,            \* data: the Float32Array, each sample as its numerator
                      \* over SampleDen
  int16,              \* the Int16Array float32ToBase64 has filled
  base64,             \* the string it returned: characters as their 6-bit
                      \* values, PadChar for '='
  channelData,        \* channel 0 of the decoded buffer: each sample as its
                      \* numerator over DecodeScale
  codecPc             \* "idle" | "input" | "encoded" | "decoded"

codecVars == <<samples, int16, base64, channelData, codecPc>>

\* the state of the player as one record
P == [currentChunk |-> currentChunk, isPlaying |-> isPlaying,
      progress |-> progress, isLoading |-> isLoading, error |-> error,
      sourceRef |-> sourceRef, animationFrameRef |-> animationFrameRef,
      loadingTimeoutRef |-> loadingTimeoutRef, audioCache |-> audioCache,
      playerMounted |-> playerMounted, ctxState |-> ctxState,
      elapsed |-> elapsed, started |-> started, frames |-> frames,
      loads |-> loads, nLoads |-> nLoads, nToggles |-> nToggles,
      toggleQ |-> toggleQ,
      lastFinished |-> lastFinished, finishCount |-> finishCount,
      replaced |-> replaced, reported |-> reported,
      burst |-> burst,
      burstFetches |-> burstFetches]

CommitP(t) ==
  /\ currentChunk' = t.currentChunk
  /\ isPlaying' = t.isPlaying
  /\ progress' = t.progress
  /\ isLoading' = t.isLoading
  /\ error' = t.error
  /\ sourceRef' = t.sourceRef
  /\ animationFrameRef' = t.animationFrameRef
  /\ loadingTimeoutRef' = t.loadingTimeoutRef
  /\ audioCache' = t.audioCache
  /\ playerMounted' = t.playerMounted
  /\ ctxState' = t.ctxState
  /\ elapsed' = t.elapsed
  /\ started' = t.started
  /\ frames' = t.frames
  /\ loads' = t.loads
  /\ nLoads' = t.nLoads
  /\ toggleQ' = t.toggleQ
  /\ nToggles' = t.nToggles
  /\ lastFinished' = t.lastFinished
  /\ finishCount' = t.finishCount
  /\ replaced' = t.replaced
  /\ reported' = t.reported
  /\ burst' = t.burst
  /\ burstFetches' = t.burstFetches
  /\ UNCHANGED <<liveVars, codecVars>>

\* the state of the live controller as one record
S == [isVoiceMode |-> isVoiceMode, isConnecting |-> isConnecting,
      isConnected |-> isConnected, aiSpeaking |-> aiSpeaking,
      isTextLoading |-> isTextLoading, mountedRef |-> mountedRef,
      liveSessionRef |-> liveSessionRef,
      inputAudioContextRef |-> inputAudioContextRef,
      outputAudioContextRef |-> outputAudioContextRef,
      scriptProcessorRef |-> scriptProcessorRef,
      mediaStreamRef |-> mediaStreamRef,
      nextStartTimeRef |-> nextStartTimeRef,
      activeSourcesRef |-> activeSourcesRef,
      isInterruptedRef |-> isInterruptedRef, session |-> session,
      inputCtxOpen |-> inputCtxOpen, outputCtxOpen |-> outputCtxOpen,
      streams |-> streams, processors |-> processors, outTime |-> outTime,
      speakTimers |-> speakTimers, micPc |-> micPc, micCtx |-> micCtx,
      textPc |-> textPc, textVoice |-> textVoice, nConnects |-> nConnects,
      lastRequest |-> lastRequest,
      turnInterrupted |-> turnInterrupted, lastOp |-> lastOp,
      textTurnDone |-> textTurnDone, respVoice |-> respVoice]

Commit(t) ==
  /\ isVoiceMode' = t.isVoiceMode
  /\ isConnecting' = t.isConnecting
  /\ isConnected' = t.isConnected
  /\ aiSpeaking' = t.aiSpeaking
  /\ isTextLoading' = t.isTextLoading
  /\ mountedRef' = t.mountedRef
  /\ liveSessionRef' = t.liveSessionRef
  /\ inputAudioContextRef' = t.inputAudioContextRef
  /\ outputAudioContextRef' = t.outputAudioContextRef
  /\ scriptProcessorRef' = t.scriptProcessorRef
  /\ mediaStreamRef' = t.mediaStreamRef
  /\ nextStartTimeRef' = t.nextStartTimeRef
  /\ activeSourcesRef' = t.activeSourcesRef
  /\ isInterruptedRef' = t.isInterruptedRef
  /\ session' = t.session
  /\ inputCtxOpen' = t.inputCtxOpen
  /\ outputCtxOpen' = t.outputCtxOpen
  /\ streams' = t.streams
  /\ processors' = t.processors
  /\ outTime' = t.outTime
  /\ speakTimers' = t.speakTimers
  /\ micPc' = t.micPc
  /\ micCtx' = t.micCtx
  /\ textPc' = t.textPc
  /\ textVoice' = t.textVoice
  /\ nConnects' = t.nConnects
  /\ lastRequest' = t.lastRequest
  /\ turnInterrupted' = t.turnInterrupted
  /\ lastOp' = t.lastOp
  /\ textTurnDone' = t.textTurnDone
  /\ respVoice' = t.respVoice
  /\ UNCHANGED <<narrVars, codecVars>>

LiveInit ==
  /\ isVoiceMode = FALSE /\ isConnecting = FALSE /\ isConnected = FALSE
  /\ aiSpeaking = FALSE /\ isTextLoading = FALSE
  /\ mountedRef = TRUE
  /\ liveSessionRef = NULL
  /\ inputAudioContextRef = NULL /\ outputAudioContextRef = NULL
  /\ scriptProcessorRef = NULL /\ mediaStreamRef = NULL
  /\ nextStartTimeRef = 0 /\ activeSourcesRef = {}
  /\ isInterruptedRef = FALSE
  /\ session = [k \in Attempts |-> "none"]
  /\ inputCtxOpen = {} /\ outputCtxOpen = {}
  /\ streams = {} /\ processors = {}
  /\ outTime = 0 /\ speakTimers = 0
  /\ micPc = [k \in Attempts |-> "none"]
  /\ micCtx = [k \in Attempts |-> NULL]
  /\ textPc = "idle" /\ textVoice = FALSE
  /\ nConnects = 0
  /\ lastRequest = "none" /\ turnInterrupted = FALSE
  /\ lastOp = "none" /\ textTurnDone = FALSE /\ respVoice = FALSE

\* ----------------------------------------------------- playback scheduler

AfterCut  == {"cut", "dropped"}
AfterStop == {"stop", "muted"} \cup AfterCut
Enqueues  == {"enqueue", "restart", "fresh"}

\* setAiSpeaking(false) behind the mountedRef test
SetSilent(s) == IF s.mountedRef THEN [s EXCEPT !.aiSpeaking = FALSE] ELSE s

\* variant: the next start time is not reset to the clock
stopAudioOutput_NoReset(s) ==
  SetSilent([s EXCEPT
    !.activeSourcesRef = {},
    !.lastOp = IF s.outputAudioContextRef # NULL THEN "stop" ELSE s.lastOp])

\* variant: the scheduled sources are left in place
stopAudioOutput_KeepSources(s) ==
  SetSilent([s EXCEPT
    !.nextStartTimeRef = IF s.outputAudioContextRef # NULL
                         THEN s.outTime ELSE s.nextStartTimeRef,
    !.lastOp = IF s.outputAudioContextRef # NULL THEN "stop" ELSE s.lastOp])

stopAudioOutput(s) ==
  SetSilent([s EXCEPT
    !.activeSourcesRef = {},
    !.nextStartTimeRef = IF s.outputAudioContextRef # NULL
                         THEN s.outTime ELSE s.nextStartTimeRef,
    !.lastOp = IF s.outputAudioContextRef # NULL THEN "stop" ELSE s.lastOp])

\* variant: a value more than the gap ahead counts as stale whatever is
\* scheduled
StartTime_NoActiveTest(s) ==
  LET now == s.outTime IN
  IF s.nextStartTimeRef < now THEN now
  ELSE IF s.nextStartTimeRef > now + StaleGapMs THEN now
       ELSE s.nextStartTimeRef

\* the start time playAudioResponse gives to the next source
StartTime(s) ==
  LET now == s.outTime IN
  IF s.nextStartTimeRef < now THEN now
  ELSE IF s.nextStartTimeRef > now + StaleGapMs /\ s.activeSourcesRef = {}
       THEN now
       ELSE s.nextStartTimeRef

\* variant: every source starts at the clock's current time
playAudioResponse_FromNow(s, dur, live) ==
  IF s.outputAudioContextRef = NULL THEN s
  ELSE LET src == [ctx |-> s.outputAudioContextRef, start |-> s.outTime,
                   dur |-> dur, live |-> live]
       IN [s EXCEPT !.nextStartTimeRef = s.outTime + dur,
                    !.activeSourcesRef = s.activeSourcesRef \cup {src},
                    !.lastOp = "enqueue"]

\* live is TRUE for a payload of the live session, FALSE for the spoken
\* rendering of a text response
playAudioResponse(s, dur, live) ==
  IF s.outputAudioContextRef = NULL THEN s
  ELSE LET src == [ctx |-> s.outputAudioContextRef, start |-> StartTime(s),
                   dur |-> dur, live |-> live]
       IN [s EXCEPT !.nextStartTimeRef = StartTime(s) + dur,
                    !.activeSourcesRef = s.activeSourcesRef \cup {src},
                    !.lastOp = IF s.lastOp \in AfterCut /\ live THEN "fresh"
                               ELSE IF s.lastOp \in AfterStop THEN "restart"
                               ELSE "enqueue"]

\* ------------------------------------------------------- session teardown

disconnectVoiceSession(s) ==
  LET a == stopAudioOutput(s)
      b == [a EXCEPT !.streams = a.streams \ {a.mediaStreamRef},
                     !.mediaStreamRef = NULL]
      c == [b EXCEPT !.processors = b.processors \ {b.scriptProcessorRef},
                     !.scriptProcessorRef = NULL]
      d == [c EXCEPT !.inputCtxOpen = c.inputCtxOpen \ {c.inputAudioContextRef},
                     !.inputAudioContextRef = NULL]
      e == [d EXCEPT !.outputCtxOpen = d.outputCtxOpen \ {d.outputAudioContextRef},
                     !.outputAudioContextRef = NULL]
      f == [e EXCEPT !.liveSessionRef = NULL, !.lastOp = "none"]
  IN IF f.mountedRef
     THEN [f EXCEPT !.isConnected = FALSE, !.isConnecting = FALSE,
                    !.aiSpeaking = FALSE]
     ELSE f

connectVoiceSession(s) ==
  IF s.isConnected \/ s.isConnecting THEN s
  ELSE LET k == s.nConnects + 1 IN
       [s EXCEPT !.isConnecting = TRUE,
                 !.nConnects = k,
                 !.inputAudioContextRef = k,
                 !.outputAudioContextRef = k,
                 !.inputCtxOpen = s.inputCtxOpen \cup {k},
                 !.outputCtxOpen = s.outputCtxOpen \cup {k},
                 !.outTime = 0,
                 !.lastOp = "none",
                 !.session = [s.session EXCEPT ![k] = "connecting"],
                 !.liveSessionRef = k]

toggleVoiceMode(s) ==
  IF s.isVoiceMode
  THEN [disconnectVoiceSession(s) EXCEPT !.isVoiceMode = FALSE,
                                         !.lastRequest = "disconnect"]
  ELSE connectVoiceSession([s EXCEPT !.isVoiceMode = TRUE,
                                     !.lastRequest = "connect"])

\* ------------------------------------------------- callbacks of a session

onopen(s, k) ==
  LET t == [s EXCEPT !.session = [s.session EXCEPT ![k] = "open"]] IN
  IF t.mountedRef
  THEN [t EXCEPT !.isConnected = TRUE, !.isConnecting = FALSE,
                 !.micPc = [t.micPc EXCEPT ![k] = "getUserMedia"]]
  ELSE t

onclose(s, k) ==
  LET t == [s EXCEPT !.session = [s.session EXCEPT ![k] = "closed"]] IN
  IF t.mountedRef
  THEN [t EXCEPT !.isConnected = FALSE, !.isVoiceMode = FALSE,
                 !.aiSpeaking = FALSE]
  ELSE t

\* variant: an error is handled as a close is
onerror_LikeClose(s, k) ==
  LET t == [s EXCEPT !.session = [s.session EXCEPT ![k] = "errored"]] IN
  IF t.mountedRef
  THEN [t EXCEPT !.isConnected = FALSE, !.isVoiceMode = FALSE,
                 !.aiSpeaking = FALSE]
  ELSE t

\* the transport closes on an error; the onclose that follows onerror sets
\* again what onerror has set
onerror(s, k) ==
  LET t == [s EXCEPT !.session = [s.session EXCEPT ![k] = "errored"]] IN
  IF t.mountedRef
  THEN [disconnectVoiceSession(t) EXCEPT !.isVoiceMode = FALSE]
  ELSE t

handleLiveMessage(s, m) ==
  IF m.interrupted
  THEN LET cut == /\ s.outputAudioContextRef # NULL
                  /\ \E src \in s.activeSourcesRef :
                        /\ src.live /\ src.ctx = s.outputAudioContextRef
                        /\ src.start + src.dur > s.outTime
           t   == stopAudioOutput(s)
       IN [t EXCEPT !.isInterruptedRef = TRUE,
                    !.turnInterrupted = TRUE,
                    !.lastOp = IF cut THEN "cut" ELSE t.lastOp]
  ELSE LET t == IF m.turnComplete
                THEN [s EXCEPT !.isInterruptedRef = FALSE,
                               !.speakTimers = s.speakTimers + 1,
                               !.turnInterrupted = FALSE,
                               !.textTurnDone = (s.textPc # "idle")]
                ELSE s
       IN IF m.audio # 0 /\ t.outputAudioContextRef # NULL
          THEN IF ~t.isInterruptedRef
               THEN playAudioResponse([t EXCEPT !.aiSpeaking = TRUE],
                                      m.audio, TRUE)
               ELSE [t EXCEPT !.lastOp = IF t.lastOp = "cut" THEN "dropped"
                                         ELSE IF t.lastOp = "stop" THEN "muted"
                                         ELSE t.lastOp]
          ELSE t

\* ------------------------------------------------------- startMicrophone

\* getUserMedia resolved: lines 177-180
micGranted(s, k) ==
  LET t == [s EXCEPT !.mediaStreamRef = k, !.streams = s.streams \cup {k}] IN
  IF t.inputAudioContextRef = NULL
  THEN [t EXCEPT !.micPc = [t.micPc EXCEPT ![k] = "done"]]
  ELSE [t EXCEPT !.micPc = [t.micPc EXCEPT ![k] = "resume"],
                 !.micCtx = [t.micCtx EXCEPT ![k] = t.inputAudioContextRef]]

\* the catch clause: lines 208-211
micFailed(s, k) ==
  disconnectVoiceSession([s EXCEPT !.micPc = [s.micPc EXCEPT ![k] = "done"]])

\* resume() resolved: lines 182-206; a null ref makes line 182 throw
micResumed(s, k) ==
  IF s.inputAudioContextRef = NULL
  THEN micFailed(s, k)
  ELSE [s EXCEPT !.scriptProcessorRef = k,
                 !.processors = s.processors \cup {k},
                 !.micPc = [s.micPc EXCEPT ![k] = "done"]]

\* ---------------------------------------------------------- handleSendText

\* the finally clause: lines 106-109
textFinally(s) ==
  [s EXCEPT !.isTextLoading = FALSE, !.isInterruptedRef = FALSE,
            !.textPc = "idle", !.textTurnDone = FALSE, !.respVoice = FALSE]

\* variant: the submission stops the output but leaves the flag alone
sendTextStart_NoFlag(s) ==
  LET t == IF s.isVoiceMode THEN stopAudioOutput(s) ELSE s
  IN [t EXCEPT !.isTextLoading = TRUE, !.textPc = "response",
               !.textVoice = s.isVoiceMode]

\* up to the await of sendMessageToNexus: lines 58-80
sendTextStart(s) ==
  LET t == IF s.isVoiceMode
           THEN [stopAudioOutput(s) EXCEPT !.isInterruptedRef = TRUE]
           ELSE s
  IN [t EXCEPT !.isTextLoading = TRUE, !.textPc = "response",
               !.textVoice = s.isVoiceMode]

\* sendMessageToNexus resolved (it never rejects): lines 82-94
sendTextResponse(s) ==
  IF s.textVoice /\ s.mountedRef
  THEN [s EXCEPT !.textPc = "speech", !.respVoice = s.isVoiceMode]
  ELSE textFinally(s)

\* generateSpeech resolved: lines 95-98
sendTextSpeech(s, dur) ==
  textFinally(IF s.outputAudioContextRef # NULL
              THEN playAudioResponse(s, dur, FALSE)
              ELSE s)

\* ------------------------------------------------------------ live actions

\* the scheduler is followed while the end of its queue is within the horizon
CanEnqueue(dur) == StartTime(S) + dur <= (MaxClock + MaxAhead) * TickMs

ToggleVoiceMode ==
  /\ mountedRef
  /\ isVoiceMode \/ isConnected \/ isConnecting \/ nConnects < MaxConnects
  /\ Commit(toggleVoiceMode(S))

SessionOpened(k) ==
  /\ session[k] = "connecting"
  /\ Commit(onopen(S, k))

RemoteClose(k) ==
  /\ session[k] = "open"
  /\ Commit(onclose(S, k))

TransportError(k) ==
  /\ session[k] \in {"connecting", "open"}
  /\ Commit(onerror(S, k))

LiveMessage(k, m) ==
  /\ session[k] = "open"
  /\ m.audio # 0 => CanEnqueue(m.audio)
  /\ m.turnComplete => speakTimers < MaxTimers
  /\ Commit(handleLiveMessage(S, m))

SpeakTimerFired ==
  /\ speakTimers > 0
  /\ Commit(SetSilent([S EXCEPT !.speakTimers = speakTimers - 1]))

MicGranted(k) ==
  /\ micPc[k] = "getUserMedia"
  /\ Commit(micGranted(S, k))

MicDenied(k) ==
  /\ micPc[k] = "getUserMedia"
  /\ Commit(micFailed(S, k))

\* resume() of a context that is still open resolves
MicResumed(k) ==
  /\ micPc[k] = "resume"
  /\ micCtx[k] \in inputCtxOpen
  /\ Commit(micResumed(S, k))

\* resume() of a context closed meanwhile: the promise rejects, or it had
\* resolved before the close; the build decides
MicResumeClosed(k) ==
  /\ micPc[k] = "resume"
  /\ micCtx[k] \notin inputCtxOpen
  /\ \/ Commit(micFailed(S, k))
     \/ Commit(micResumed(S, k))

SendText ==
  /\ mountedRef
  /\ ~isTextLoading
  /\ Commit(sendTextStart(S))

TextResponse ==
  /\ textPc = "response"
  /\ Commit(sendTextResponse(S))

SpeechResolved(dur) ==
  /\ textPc = "speech"
  /\ CanEnqueue(dur)
  /\ Commit(sendTextSpeech(S, dur))

SpeechFailed ==
  /\ textPc = "speech"
  /\ Commit(textFinally(S))

\* the output clock advances
ClockTick ==
  /\ outputAudioContextRef # NULL
  /\ outTime < MaxClock * TickMs
  /\ Commit([S EXCEPT !.outTime = outTime + TickMs])

\* source.onended: a source of the current context ends when the clock has
\* passed its end; the clock of a context no ref holds is not followed
SourceEnded(src) ==
  /\ src \in activeSourcesRef
  /\ src.ctx = outputAudioContextRef => src.start + src.dur <= outTime
  /\ Commit([S EXCEPT !.activeSourcesRef = activeSourcesRef \ {src}])

LiveNext ==
  \/ ToggleVoiceMode
  \/ \E k \in Attempts : SessionOpened(k)
  \/ \E k \in Attempts : RemoteClose(k)
  \/ \E k \in Attempts : TransportError(k)
  \/ \E k \in Attempts, m \in Messages : LiveMessage(k, m)
  \/ SpeakTimerFired
  \/ \E k \in Attempts : MicGranted(k)
  \/ \E k \in Attempts : MicDenied(k)
  \/ \E k \in Attempts : MicResumed(k)
  \/ \E k \in Attempts : MicResumeClosed(k)
  \/ SendText
  \/ TextResponse
  \/ \E dur \in Durations : SpeechResolved(dur)
  \/ SpeechFailed
  \/ ClockTick
  \/ \E src \in activeSourcesRef : SourceEnded(src)

\* =========================================================== AudioPlayer

NoSource == [id |-> NULL, chunk |-> NULL]
NoLoad   == [chunk |-> NULL, playing |-> FALSE, active |-> FALSE,
             pc |-> "none", due |-> 0, fetched |-> FALSE, late |-> FALSE]

\* duration of the decoded audio of a chunk
BufferMs(c) == c * TickMs

Min(a, b) == IF a < b THEN a ELSE b
Max(a, b) == IF a > b THEN a ELSE b

\* the state after the first render: the three effects have run once, with
\* an empty cache; a context created before any user gesture stays suspended
\* until its resume() is allowed to settle
NarrInit ==
  /\ currentChunk = 1
  /\ isPlaying \in BOOLEAN
  /\ progress = 0 /\ isLoading = FALSE /\ error = FALSE
  /\ sourceRef = NoSource
  /\ animationFrameRef = NULL
  /\ loadingTimeoutRef = 1
  /\ audioCache = [c \in Chunks |-> NULL]
  /\ playerMounted = TRUE
  /\ ctxState \in IF isPlaying THEN {"running", "suspended"}
                            ELSE {"suspended"}
  /\ elapsed = 0 /\ started = {} /\ frames = {}
  /\ loads = [n \in Loads |->
               IF n = 1
               THEN [chunk |-> 1, playing |-> isPlaying, active |-> TRUE,
                     pc |-> "timer", due |-> DebounceMs, fetched |-> FALSE,
                     late |-> FALSE]
               ELSE NoLoad]
  /\ nLoads = 1 /\ nToggles = 0
  /\ toggleQ = IF isPlaying
               THEN <<[chunk |-> 1, isLoading |-> FALSE, error |-> FALSE]>>
               ELSE <<>>
  /\ lastFinished = NULL /\ finishCount = 0 /\ replaced = FALSE
  /\ reported = -1
  /\ burst = <<1>> /\ burstFetches = <<>>

\* --------------------------------------------------- single-buffer playback

\* mutant: the pending frame request is not cancelled
stopPlayback_KeepLoop(s) ==
  IF s.sourceRef.id # NULL
  THEN [s EXCEPT !.started = s.started \ {s.sourceRef.id},
                 !.sourceRef = NoSource]
  ELSE s

\* stopPlayback: lines 50-59
stopPlayback(s) ==
  LET a == IF s.sourceRef.id # NULL
           THEN [s EXCEPT !.started = s.started \ {s.sourceRef.id},
                          !.sourceRef = NoSource]
           ELSE s
  IN IF a.animationFrameRef # NULL
     THEN [a EXCEPT !.frames = {f \in a.frames : f.id # a.animationFrameRef}]
     ELSE a

\* a fresh identity for a source and its progress loop
FreshId(s) ==
  CHOOSE i \in 1..(Cardinality(s.started) + Cardinality(s.frames) + 1) :
    i \notin s.started /\ \A f \in s.frames : f.id # i

\* mutant: the source in place is left playing
playBuffer_NoStop(s, c) ==
  LET id == FreshId(s)
  IN [s EXCEPT !.sourceRef = [id |-> id, chunk |-> c],
               !.started = s.started \cup {id},
               !.elapsed = 0,
               !.frames = {f \in s.frames : f.id # s.animationFrameRef}
                            \cup {[id |-> id, chunk |-> c]},
               !.animationFrameRef = id,
               !.finishCount = 0,
               !.replaced = (s.sourceRef.id # NULL),
               !.reported = -1]

\* playBuffer: lines 81-115
playBuffer(s, c) ==
  LET a  == stopPlayback(s)
      id == FreshId(a)
  IN [a EXCEPT !.sourceRef = [id |-> id, chunk |-> c],
               !.started = a.started \cup {id},
               !.elapsed = 0,
               !.frames = a.frames \cup {[id |-> id, chunk |-> c]},
               !.animationFrameRef = id,
               !.finishCount = 0,
               !.replaced = (s.sourceRef.id # NULL),
               !.reported = -1]

\* setProgress(p) from the progress loop
report(s, p) == [s EXCEPT !.progress = p, !.reported = p]

\* mutant: at the end of the buffer the loop goes on
updateProgress_KeepsRunning(s, f) ==
  LET a == [s EXCEPT !.frames = s.frames \ {f}]
      b == IF a.ctxState = "running" /\ a.elapsed >= BufferMs(f.chunk)
           THEN [report(a, 100) EXCEPT !.lastFinished = f.chunk,
                                       !.finishCount = a.finishCount + 1]
           ELSE IF a.ctxState = "running"
                THEN report(a, Min((a.elapsed * 100) \div BufferMs(f.chunk),
                                   100))
                ELSE a
  IN [b EXCEPT !.frames = b.frames \cup {f}, !.animationFrameRef = f.id]

\* one run of the frame callback f of a progress loop: lines 96-112
updateProgress(s, f) ==
  LET a == [s EXCEPT !.frames = s.frames \ {f}] IN
  IF a.ctxState = "running" /\ a.elapsed >= BufferMs(f.chunk)
  THEN stopPlayback([report(a, 100) EXCEPT
                       !.lastFinished = f.chunk,
                       !.finishCount = a.finishCount + 1])
  ELSE LET b == IF a.ctxState = "running"
                THEN report(a, Min((a.elapsed * 100) \div BufferMs(f.chunk),
                                   100))
                ELSE a
       IN [b EXCEPT !.frames = b.frames \cup {f},
                    !.animationFrameRef = f.id]

\* ------------------------------------------------------------- load effect

\* mutant: the pending timer is not cleared
clearLoadingTimeout_NotCleared(s) == s

\* if (loadingTimeoutRef.current) clearTimeout(loadingTimeoutRef.current)
clearLoadingTimeout(s) ==
  IF s.loadingTimeoutRef # NULL /\ s.loads[s.loadingTimeoutRef].pc = "timer"
  THEN [s EXCEPT !.loads[s.loadingTimeoutRef].pc = "cancelled",
                 !.loads[s.loadingTimeoutRef].due = 0]
  ELSE s

\* the cleanup of the effect run last: lines 170-173
cleanupLoad(s) ==
  clearLoadingTimeout([s EXCEPT !.loads[s.nLoads].active = FALSE])

\* mutant: the loading state is not cleared when the buffer is there
loaded_KeepsLoading(s, n) ==
  LET ld == s.loads[n] IN
  IF ~ld.active THEN [s EXCEPT !.loads[n].pc = "discarded"]
  ELSE IF ~ld.playing THEN [s EXCEPT !.loads[n].pc = "ready"]
  ELSE IF s.ctxState = "suspended"
       THEN [s EXCEPT !.loads[n].pc = "resume", !.ctxState = "running"]
       ELSE playBuffer([s EXCEPT !.loads[n].pc = "played"], ld.chunk)

\* lines 142-150, up to the await of resume()
loaded(s, n) ==
  LET ld == s.loads[n] IN
  IF ~ld.active THEN [s EXCEPT !.loads[n].pc = "discarded"]
  ELSE LET a == [s EXCEPT !.isLoading = FALSE] IN
       IF ~ld.playing THEN [a EXCEPT !.loads[n].pc = "ready"]
       ELSE IF a.ctxState = "suspended"
            THEN [a EXCEPT !.loads[n].pc = "resume", !.ctxState = "running"]
            ELSE playBuffer([a EXCEPT !.loads[n].pc = "played"], ld.chunk)

\* mutant: the cache is not looked up, every load fetches
loadAudio_AlwaysFetch(s, n) ==
  LET a == [stopPlayback(s) EXCEPT !.progress = 0, !.error = FALSE,
                                   !.isLoading = TRUE,
                                   !.loads[n].due = 0]
  IN [a EXCEPT !.loads[n].pc = "fetch", !.loads[n].fetched = TRUE,
               !.burstFetches = Append(a.burstFetches, s.loads[n].chunk)]

\* loadAudio up to its first await: lines 121-140
loadAudio(s, n) ==
  LET ld == s.loads[n]
      a  == [stopPlayback(s) EXCEPT !.progress = 0, !.error = FALSE,
                                    !.isLoading = TRUE,
                                    !.loads[n].due = 0]
  IN IF a.audioCache[ld.chunk] = NULL
     THEN [a EXCEPT !.loads[n].pc = "fetch", !.loads[n].fetched = TRUE,
                    !.burstFetches = Append(a.burstFetches, ld.chunk)]
     ELSE loaded(a, n)

\* mutant: the result of a superseded fetch is not discarded
fetchResolved_NoActiveCheck(s, n) ==
  loaded([s EXCEPT !.audioCache[s.loads[n].chunk] = n,
                   !.loads[n].late = s.audioCache[s.loads[n].chunk] # NULL], n)

\* generateSpeech resolved and the payload decodes: lines 137-150
fetchResolved(s, n) ==
  LET ld == s.loads[n] IN
  IF ~ld.active
  THEN [s EXCEPT !.loads[n].pc = "discarded",
                 !.loads[n].late = s.audioCache[ld.chunk] # NULL]
  ELSE loaded([s EXCEPT !.audioCache[ld.chunk] = n], n)

\* mutant: a failed load tries again by itself after the debounce delay
loadFailed_AutoRetry(s, n) ==
  IF s.loads[n].active
  THEN [s EXCEPT !.loads[n].pc = "timer", !.loads[n].due = DebounceMs,
                 !.error = TRUE, !.isLoading = FALSE]
  ELSE [s EXCEPT !.loads[n].pc = "discarded"]

\* mutant: the failure is swallowed, nothing is shown
loadFailed_Silent(s, n) ==
  [s EXCEPT !.loads[n].pc = IF s.loads[n].active THEN "failed"
                            ELSE "discarded"]

\* generateSpeech rejected, or decodeAudio threw: lines 151-157
loadFailed(s, n) ==
  IF s.loads[n].active
  THEN [s EXCEPT !.loads[n].pc = "failed", !.error = TRUE,
                 !.isLoading = FALSE]
  ELSE [s EXCEPT !.loads[n].pc = "discarded"]

\* resume() settled: line 148; on a closed context it rejects
resumeResolved(s, n) ==
  IF s.ctxState = "closed" THEN loadFailed(s, n)
  ELSE playBuffer([s EXCEPT !.loads[n].pc = "played"], s.loads[n].chunk)

\* mutant: every load waits for the debounce delay
runLoadEffect_AlwaysDebounce(s) ==
  LET n == s.nLoads + 1
      a == [s EXCEPT !.nLoads = n,
                     !.loads[n] = [chunk |-> s.currentChunk,
                                   playing |-> s.isPlaying, active |-> TRUE,
                                   pc |-> "new", due |-> 0,
                                   fetched |-> FALSE, late |-> FALSE]]
  IN [clearLoadingTimeout(a) EXCEPT !.loads[n].pc = "timer",
                                    !.loads[n].due = DebounceMs,
                                    !.loadingTimeoutRef = n]

\* the body of the effect: lines 119, 163-168
runLoadEffect(s) ==
  LET n == s.nLoads + 1
      a == [s EXCEPT !.nLoads = n,
                     !.loads[n] = [chunk |-> s.currentChunk,
                                   playing |-> s.isPlaying, active |-> TRUE,
                                   pc |-> "new", due |-> 0,
                                   fetched |-> FALSE, late |-> FALSE]]
  IN IF a.audioCache[a.currentChunk] # NULL
     THEN loadAudio(a, n)
     ELSE [clearLoadingTimeout(a) EXCEPT !.loads[n].pc = "timer",
                                         !.loads[n].due = DebounceMs,
                                         !.loadingTimeoutRef = n]

\* history: a request for an uncached chunk continues the rapid sequence
\* when the timer of the request before it has not run out
noteRequest(s) ==
  LET prev == s.loads[s.nLoads] IN
  IF s.audioCache[s.currentChunk] # NULL
  THEN [s EXCEPT !.burst = <<>>, !.burstFetches = <<>>]
  ELSE IF prev.pc = "timer" /\ prev.due > 0
       THEN [s EXCEPT !.burst = Append(s.burst, s.currentChunk)]
       ELSE [s EXCEPT !.burst = <<s.currentChunk>>, !.burstFetches = <<>>]

\* the parent renders another chunk: cleanup, then the effect
chunkChange(s, c) ==
  runLoadEffect(cleanupLoad(noteRequest([s EXCEPT !.currentChunk = c])))

\* setRetryTrigger(prev => prev + 1): line 238
retry(s) == runLoadEffect(cleanupLoad(noteRequest(s)))

\* ------------------------------------------------------- play/pause effect

\* the parent flips isPlaying; the effect up to its await: lines 178-195
togglePlay(s) ==
  LET a == [s EXCEPT !.isPlaying = ~s.isPlaying,
                     !.nToggles = s.nToggles + 1] IN
  IF a.isPlaying
  THEN [a EXCEPT !.ctxState = "running",
                 !.toggleQ = Append(a.toggleQ,
                    [chunk |-> a.currentChunk, isLoading |-> a.isLoading,
                     error |-> a.error])]
  ELSE [a EXCEPT !.ctxState = "suspended"]

\* after await ctx.resume(): lines 186-190
toggleResumed(s) ==
  LET cl == Head(s.toggleQ)
      a  == [s EXCEPT !.toggleQ = Tail(s.toggleQ)]
  IN IF a.ctxState = "closed" THEN a
     ELSE IF a.audioCache[cl.chunk] # NULL /\ a.sourceRef.id = NULL
             /\ ~cl.isLoading /\ ~cl.error
          THEN playBuffer(a, cl.chunk)
          ELSE a

\* the cleanups at unmount: lines 43-46 and 170-173
unmountPlayer(s) ==
  cleanupLoad([stopPlayback(s) EXCEPT !.ctxState = "closed",
                                      !.playerMounted = FALSE])

\* TickMs pass: pending timers come closer, a running context plays on
tick(s) ==
  [s EXCEPT
    !.loads = [n \in Loads |->
                 IF s.loads[n].pc = "timer"
                 THEN [s.loads[n] EXCEPT !.due = Max(s.loads[n].due - TickMs, 0)]
                 ELSE s.loads[n]],
    !.elapsed = IF s.ctxState = "running" /\ s.frames # {}
                THEN Min(s.elapsed + TickMs, BufferMs(NChunks))
                ELSE s.elapsed]

\* ------------------------------------------------------ narration actions

\* currentChunk is a prop: the parent may replace it at any time (only the
\* player's own previous/next buttons are disabled while it is loading)
ChunkChange(c) ==
  /\ playerMounted
  /\ c # currentChunk
  /\ nLoads < MaxLoads
  /\ CommitP(chunkChange(P, c))

Retry ==
  /\ playerMounted
  /\ error
  /\ nLoads < MaxLoads
  /\ CommitP(retry(P))

PlayPause ==
  /\ playerMounted
  /\ nToggles < MaxToggles
  /\ CommitP(togglePlay(P))

ToggleResumed ==
  /\ toggleQ # <<>>
  /\ CommitP(toggleResumed(P))

TimerFired(n) ==
  /\ loads[n].pc = "timer"
  /\ loads[n].due = 0
  /\ CommitP(loadAudio(P, n))

FetchResolved(n) ==
  /\ loads[n].pc = "fetch"
  /\ CommitP(fetchResolved(P, n))

FetchFailed(n) ==
  /\ loads[n].pc = "fetch"
  /\ CommitP(loadFailed(P, n))

ResumeResolved(n) ==
  /\ loads[n].pc = "resume"
  /\ CommitP(resumeResolved(P, n))

Frame(f) ==
  /\ f \in frames
  /\ CommitP(updateProgress(P, f))

NarrTick ==
  /\ tick(P) # P
  /\ CommitP(tick(P))

UnmountPlayer ==
  /\ playerMounted
  /\ CommitP(unmountPlayer(P))

NarrNext ==
  \/ \E c \in Chunks : ChunkChange(c)
  \/ Retry
  \/ PlayPause
  \/ ToggleResumed
  \/ \E n \in Loads : TimerFired(n)
  \/ \E n \in Loads : FetchResolved(n)
  \/ \E n \in Loads : FetchFailed(n)
  \/ \E n \in Loads : ResumeResolved(n)
  \/ \E f \in frames : Frame(f)
  \/ NarrTick
  \/ UnmountPlayer

\* ================================================================= codec

\* a sample is the exact value num / SampleDen: one binary digit more than
\* the 16-bit scale, so that every value is a float32 and the truncation of
\* the encoder can be seen
SampleDen == 2 * DecodeScale
\* samples are tried in -2..2
MaxAbs    == 2 * SampleDen
Int16Range == -32768 .. 32767
PadChar   == 64

Grid ==
  {k * GridStep : k \in -(MaxAbs \div GridStep) .. (MaxAbs \div GridStep)}
    \cup {-MaxAbs, -SampleDen, SampleDen, MaxAbs}
Coarse == {-MaxAbs, -SampleDen, 0, SampleDen, MaxAbs}
\* the arrays tried: one sample from the grid among coarse ones
SampleArrays ==
  {[i \in 1..n |-> IF i = k THEN g ELSE c] :
     n \in 1..MaxSamples, k \in 1..MaxSamples, g \in Grid, c \in Coarse}

\* the integer part of a * b / d, for d > 0; the product is taken in two
\* parts, which gives the same value with smaller intermediate numbers
TruncMulDiv(a, b, d) ==
  LET m == IF a < 0 THEN -a ELSE a
      q == (m \div d) * b + ((m % d) * b) \div d
  IN IF a < 0 THEN -q ELSE q

\* the conversion of a Number stored into an Int16Array, for an integer x
ToInt16(x) ==
  LET u == x % 65536 IN IF u >= 32768 THEN u - 65536 ELSE u

\* mutant: the sample is not clamped
clamp_None(x) == x

\* Math.max(-1, Math.min(1, data[i])): line 10
clamp(x) == Max(-SampleDen, Min(SampleDen, x))

\* the Number assigned at line 11, truncated as the store truncates it
scaled(x) ==
  LET c == clamp(x)
  IN TruncMulDiv(c, IF c < 0 THEN NegScale ELSE PosScale, SampleDen)

\* lines 6-12
toInt16Array(data) == [i \in 1..Len(data) |-> ToInt16(scaled(data[i]))]

\* new Uint8Array(int16.buffer): two bytes per element, low byte first
RECURSIVE toBytes(_)
toBytes(a) ==
  IF a = <<>> THEN <<>>
  ELSE LET u == a[1] % 65536
       IN <<u % 256, u \div 256>> \o toBytes(Tail(a))

\* new Int16Array(bytes.buffer)
RECURSIVE fromBytes(_)
fromBytes(b) ==
  IF Len(b) < 2 THEN <<>>
  ELSE <<ToInt16(b[1] + 256 * b[2])>> \o fromBytes(SubSeq(b, 3, Len(b)))

\* btoa of the binary string whose char codes are the bytes b
RECURSIVE btoa(_)
btoa(b) ==
  IF Len(b) = 0 THEN <<>>
  ELSE IF Len(b) = 1
  THEN <<b[1] \div 4, (b[1] % 4) * 16, PadChar, PadChar>>
  ELSE IF Len(b) = 2
  THEN <<b[1] \div 4, (b[1] % 4) * 16 + b[2] \div 16, (b[2] % 16) * 4,
         PadChar>>
  ELSE <<b[1] \div 4, (b[1] % 4) * 16 + b[2] \div 16,
         (b[2] % 16) * 4 + b[3] \div 64, b[3] % 64>>
         \o btoa(SubSeq(b, 4, Len(b)))

\* atob: the char codes of the binary string the text t stands for
RECURSIVE atob(_)
atob(t) ==
  IF Len(t) < 4 THEN <<>>
  ELSE LET b1 == t[1] * 4 + t[2] \div 16
           b2 == (t[2] % 16) * 16 + t[3] \div 4
           b3 == (t[3] % 4) * 64 + t[4]
       IN IF t[3] = PadChar THEN <<b1>>
          ELSE IF t[4] = PadChar THEN <<b1, b2>>
          ELSE <<b1, b2, b3>> \o atob(SubSeq(t, 5, Len(t)))

float32ToBase64(data) == btoa(toBytes(toInt16Array(data)))

\* channelData[i] = int16[i] / 32768.0, kept as the numerator
base64ToAudioBuffer(b64) == fromBytes(atob(b64))

CodecIdle ==
  /\ samples = <<>> /\ int16 = <<>> /\ base64 = <<>> /\ channelData = <<>>
  /\ codecPc = "idle"

CodecInput ==
  /\ samples \in SampleArrays
  /\ int16 = <<>> /\ base64 = <<>> /\ channelData = <<>>
  /\ codecPc = "input"

Encode ==
  /\ codecPc = "input"
  /\ int16' = toInt16Array(samples)
  /\ base64' = float32ToBase64(samples)
  /\ codecPc' = "encoded"
  /\ UNCHANGED <<samples, channelData, liveVars, narrVars>>

Decode ==
  /\ codecPc = "encoded"
  /\ channelData' = base64ToAudioBuffer(base64)
  /\ codecPc' = "decoded"
  /\ UNCHANGED <<samples, int16, base64, liveVars, narrVars>>

CodecNext == Encode \/ Decode

vars == <<liveVars, narrVars, codecVars>>

Init == LiveInit /\ NarrInit /\ CodecIdle

\* the codec applied to one array, with the components left as mounted
InitCodec == LiveInit /\ NarrInit /\ ~isPlaying /\ CodecInput

SpecCodec == InitCodec /\ [][CodecNext]_vars

\* the live controller, with the player left as mounted
InitPaused == Init /\ ~isPlaying

SpecLive == InitPaused /\ [][LiveNext]_vars

\* the session, its capture side and text submissions: no message arrives on
\* the session
HybridNext ==
  \/ ToggleVoiceMode
  \/ \E k \in Attempts : SessionOpened(k)
  \/ \E k \in Attempts : RemoteClose(k)
  \/ \E k \in Attempts : TransportError(k)
  \/ \E k \in Attempts : MicGranted(k)
  \/ \E k \in Attempts : MicDenied(k)
  \/ \E k \in Attempts : MicResumed(k)
  \/ \E k \in Attempts : MicResumeClosed(k)
  \/ SendText
  \/ TextResponse
  \/ \E dur \in Durations : SpeechResolved(dur)
  \/ SpeechFailed
  \/ ClockTick
  \/ \E src \in activeSourcesRef : SourceEnded(src)

SpecHybrid == InitPaused /\ [][HybridNext]_vars

\* the playback scheduler of the live controller: the microphone prompt is
\* left unanswered and the transport neither closes nor fails
SchedNext ==
  \/ ToggleVoiceMode
  \/ \E k \in Attempts : SessionOpened(k)
  \/ \E k \in Attempts, m \in Messages : LiveMessage(k, m)
  \/ SpeakTimerFired
  \/ SendText
  \/ TextResponse
  \/ \E dur \in Durations : SpeechResolved(dur)
  \/ SpeechFailed
  \/ ClockTick
  \/ \E src \in activeSourcesRef : SourceEnded(src)

SpecSched == InitPaused /\ [][SchedNext]_vars

\* the player, with the live controller left idle
SpecNarr == Init /\ [][NarrNext]_vars

\* the loader of the player alone: isPlaying stays as rendered first and
\* animation frames are not followed
LoaderNext ==
  \/ \E c \in Chunks : ChunkChange(c)
  \/ Retry
  \/ ToggleResumed
  \/ \E n \in Loads : TimerFired(n)
  \/ \E n \in Loads : FetchResolved(n)
  \/ \E n \in Loads : FetchFailed(n)
  \/ \E n \in Loads : ResumeResolved(n)
  \/ NarrTick
  \/ UnmountPlayer

SpecLoader == Init /\ [][LoaderNext]_vars

\* the loader when time passes, a timer that has run out calls its callback
\* and every generateSpeech promise settles, one way or the other
LoaderFairness ==
  /\ WF_vars(NarrTick)
  /\ \A n \in Loads : WF_vars(TimerFired(n))
  /\ \A n \in Loads : WF_vars(FetchResolved(n) \/ FetchFailed(n))

SpecLoaderFair == SpecLoader /\ LoaderFairness

\* ================================================= claims: live controller

OpenSessions == {k \in Attempts : session[k] = "open"}

\* C1: when the transport closes the session the controller is connected to,
\* the capture stream it holds is stopped, its processing node disconnected,
\* both of its audio clocks closed, the active-source set emptied and voice
\* mode exited.
C1_CloseReleasesAll ==
  [][\A k \in Attempts :
       (session[k] = "open" /\ session'[k] = "closed"
        /\ isConnected /\ liveSessionRef = k)
       => /\ mediaStreamRef \notin streams'
          /\ scriptProcessorRef \notin processors'
          /\ inputAudioContextRef \notin inputCtxOpen'
          /\ outputAudioContextRef \notin outputCtxOpen'
          /\ activeSourcesRef' = {}
          /\ ~isVoiceMode']_vars

\* C2: at most one microphone stream is held open and at most one live
\* session is open, in every reachable state.
C2_OneStreamOneSession ==
  /\ Cardinality(streams) <= 1
  /\ Cardinality(OpenSessions) <= 1

\* C3: from an explicit disconnect until the next connect request no
\* microphone stream, processing node or capture-side clock is held.
C3_ReleasedAfterDisconnect ==
  lastRequest = "disconnect"
    => streams = {} /\ processors = {} /\ inputCtxOpen = {}

\* C10: no payload of the live session is enqueued for playback between an
\* interrupted message and the next turn-complete message.
C10_NoEnqueueWhileInterrupted ==
  [][(\E src \in activeSourcesRef' \ activeSourcesRef : src.live)
       => ~turnInterrupted']_vars

\* the sources a step adds to the scheduler
Enqueued == activeSourcesRef' \ activeSourcesRef

\* C11 as stated: a payload that arrives after the interruption marker cut a
\* scheduled payload is enqueued (never dropped).
C11_PayloadAfterCutEnqueued ==
  lastOp # "dropped"

\* C11 amended: at the interruption every scheduled source is removed, and
\* the first payload enqueued after it on the same clock (which takes the
\* interruption flag to have been cleared) starts at the clock's current
\* time.
C11_CutThenStartFromNow ==
  [][/\ lastOp' \in AfterCut => activeSourcesRef' = {}
     /\ \A src \in Enqueued :
          (lastOp \in AfterCut /\ src.live) => src.start = outTime]_vars

\* C11 witness: after a cut, with the clock moved on, the next live payload
\* was enqueued and starts now.
C11_Witness ==
  /\ lastOp = "fresh" /\ outTime > 0
  /\ \E src \in activeSourcesRef :
        src.live /\ src.ctx = outputAudioContextRef /\ src.start = outTime

\* C12: after stopAudioOutput on a live output clock the active-source set
\* is empty and the next start time is the clock time of the stop; the next
\* enqueue on that clock starts at or after that time.
C12_StopThenNotBefore ==
  [][/\ lastOp' \in AfterStop
          => (activeSourcesRef' = {} /\ nextStartTimeRef' <= outTime')
     /\ (lastOp' \in AfterStop
          /\ (lastOp \notin AfterStop \/ nextStartTimeRef' # nextStartTimeRef))
          => nextStartTimeRef' = outTime'
     /\ \A src \in Enqueued :
          lastOp \in AfterStop
            => (src.start >= nextStartTimeRef /\ src.start >= outTime)]_vars

\* C12 witness: the first source enqueued after a stop is scheduled, after
\* the clock has moved on.
C12_Witness ==
  /\ lastOp = "restart" /\ outTime > 0
  /\ \E src \in activeSourcesRef :
        src.ctx = outputAudioContextRef /\ src.start >= outTime

Overlap(a, b) ==
  /\ a # b /\ a.ctx = b.ctx
  /\ a.start < b.start + b.dur /\ b.start < a.start + a.dur

\* C13: a buffer enqueued after another one on the same clock with no stop
\* between them and the clock not past the end of the first starts where the
\* first ends; the intervals of the scheduled sources of a clock never
\* overlap.
C13_BackToBack ==
  [][/\ \A src \in Enqueued :
          /\ nextStartTimeRef' = src.start + src.dur
          /\ (lastOp \in Enqueues /\ nextStartTimeRef >= outTime)
               => src.start = nextStartTimeRef
     /\ \A a, b \in activeSourcesRef' : ~Overlap(a, b)]_vars

\* C13 witness: a buffer of two ticks and a buffer of one tick are scheduled
\* back to back.
C13_Witness ==
  \E a, b \in activeSourcesRef :
    /\ a.ctx = outputAudioContextRef /\ b.ctx = outputAudioContextRef
    /\ a.dur = 2 * TickMs /\ b.dur = TickMs
    /\ b.start = a.start + a.dur
    /\ nextStartTimeRef = b.start + b.dur

\* C14: the next start time decreases only in a step that stops the output
\* (reset to the clock's current time) or in an enqueue that found it more
\* than 0.5 s ahead of the clock with no active source.
C14_NextStartMonotone ==
  [][nextStartTimeRef' < nextStartTimeRef
       => \/ /\ outputAudioContextRef # NULL
             /\ activeSourcesRef' = {} /\ nextStartTimeRef' = outTime
          \/ /\ Enqueued # {}
             /\ nextStartTimeRef > outTime + StaleGapMs
             /\ activeSourcesRef = {}]_vars

\* C14 witness: an interruption has reset the next start time from the end
\* of a scheduled payload back to the clock.
C14_Witness ==
  /\ lastOp = "cut" /\ activeSourcesRef = {}
  /\ nextStartTimeRef = outTime /\ outTime > 0

\* C15: a turn-complete message leaves an interruption flag that is set in
\* place; the flag is cleared when the 500 ms timer the message arms fires.
C15_FlagKeptDuringGrace ==
  [][(isInterruptedRef /\ speakTimers' > speakTimers)
       => isInterruptedRef']_vars

\* C16 as stated: a text submission in voice mode empties the active-source
\* set and sets the interruption flag, and no payload of the live session is
\* enqueued while the text request is outstanding.
C16_NoLiveAudioWhileTextPending ==
  [][/\ (textPc = "idle" /\ textPc' = "response" /\ isVoiceMode)
          => (activeSourcesRef' = {} /\ isInterruptedRef')
     /\ (textPc = "response" /\ textVoice)
          => \A src \in Enqueued : ~src.live]_vars

\* C16 amended: a text submission in voice mode empties the active-source
\* set and sets the interruption flag, and from then until handleSendText
\* has finished or a turn-complete message has been handled, whichever is
\* first, the flag stays set and no payload of the live session is enqueued.
C16_NoLiveAudioUntilTurnComplete ==
  [][/\ (textPc = "idle" /\ textPc' = "response" /\ isVoiceMode)
          => (activeSourcesRef' = {} /\ isInterruptedRef')
     /\ (textPc' # "idle" /\ textVoice' /\ ~textTurnDone')
          => (isInterruptedRef' /\ \A src \in Enqueued : ~src.live)]_vars

\* C16 witness: a payload of the live session was dropped while the text
\* request of a submission made in voice mode was outstanding.
C16_Witness ==
  /\ textPc = "response" /\ textVoice /\ ~textTurnDone
  /\ lastOp = "muted"

\* C17: the spoken rendering of a text response is scheduled only if the
\* client was in voice mode when the response arrived.
C17_SpeechOnlyInVoiceMode ==
  [][\A src \in Enqueued : ~src.live => respVoice]_vars

\* C18: the step that plays the spoken rendering of a text response leaves
\* the next start time and the active-source set of the live scheduler as
\* they were.
C18_SpeechLeavesSchedulerAlone ==
  [][(textPc = "speech" /\ textPc' = "idle")
       => /\ nextStartTimeRef' = nextStartTimeRef
          /\ activeSourcesRef' = activeSourcesRef]_vars

\* C19: when getUserMedia fails after the session opened, the controller is
\* idle afterwards: both clocks closed and released, no capture stream held,
\* neither connecting nor connected, voice mode off.
C19_MicFailureBackToIdle ==
  [][\A k \in Attempts :
       (micPc[k] = "getUserMedia" /\ micPc'[k] = "done"
        /\ mediaStreamRef' = NULL)
       => /\ inputAudioContextRef \notin inputCtxOpen'
          /\ outputAudioContextRef \notin outputCtxOpen'
          /\ inputAudioContextRef' = NULL /\ outputAudioContextRef' = NULL
          /\ ~isConnecting' /\ ~isConnected'
          /\ ~isVoiceMode']_vars

\* C20: a transport error releases what the controller holds (the capture
\* stream, the processing node, both clocks, the active sources) and exits
\* voice mode; a connection attempt is started only by the user toggling
\* voice mode on.
C20_ErrorTearsDown ==
  [][/\ \A k \in Attempts :
          (session[k] # "errored" /\ session'[k] = "errored")
          => /\ mediaStreamRef \notin streams' /\ mediaStreamRef' = NULL
             /\ scriptProcessorRef \notin processors'
             /\ scriptProcessorRef' = NULL
             /\ inputAudioContextRef \notin inputCtxOpen'
             /\ inputAudioContextRef' = NULL
             /\ outputAudioContextRef \notin outputCtxOpen'
             /\ outputAudioContextRef' = NULL
             /\ activeSourcesRef' = {}
             /\ ~isVoiceMode' /\ ~isConnected' /\ ~isConnecting'
             /\ nConnects' = nConnects
     /\ nConnects' # nConnects
          => (~isVoiceMode /\ isVoiceMode' /\ lastRequest' = "connect")]_vars

\* C20 witness: the session whose microphone had been granted failed, and
\* its stream, node and clocks are released with voice mode off.
C20_Witness ==
  \E k \in Attempts :
    /\ session[k] = "errored" /\ micCtx[k] = k /\ micPc[k] = "done"
    /\ nConnects = k /\ lastRequest = "connect"
    /\ k \notin streams /\ k \notin processors
    /\ k \notin inputCtxOpen /\ k \notin outputCtxOpen
    /\ activeSourcesRef = {} /\ ~isVoiceMode

\* C29: the controller becomes connected, and asks for the microphone, only
\* in a step in which the session of the attempt it is connecting with is
\* acknowledged open; the acknowledgment of an attempt given up by a
\* disconnect does neither.
C29_OpenOnlyWhileConnecting ==
  [][((~isConnected /\ isConnected')
      \/ \E k \in Attempts : /\ micPc'[k] = "getUserMedia"
                              /\ micPc[k] # "getUserMedia")
     => \E k \in Attempts :
          /\ session[k] = "connecting" /\ session'[k] = "open"
          /\ isConnecting /\ liveSessionRef = k]_vars

\* ======================================================== claims: narration

Outstanding(c) == {n \in Loads : loads[n].pc = "fetch" /\ loads[n].chunk = c}
\* loads whose fetch was not superseded before it settled
Fetched(c)     == {n \in Loads : /\ loads[n].fetched /\ loads[n].chunk = c
                                 /\ loads[n].pc # "discarded"
                                 /\ loads[n].pc = "fetch" => loads[n].active}
Completed      == {"ready", "resume", "played"}

\* C4: for every chunk identifier at most one synthesis fetch of the loader
\* is outstanding, in every reachable state.
C4_OneOutstandingFetchPerChunk ==
  \A c \in Chunks : Cardinality(Outstanding(c)) <= 1

\* C5: no step replaces or removes the value the cache holds for a chunk
\* identifier.
C5_CacheEntriesNeverChange ==
  [][\A c \in Chunks :
       audioCache[c] # NULL => audioCache'[c] = audioCache[c]]_vars

\* C5 witness: the result of a superseded fetch arrived when the cache
\* already held an entry for its chunk, written by a later load.
C5_Witness ==
  \E n \in Loads :
    /\ loads[n].pc = "discarded" /\ loads[n].late
    /\ audioCache[loads[n].chunk] \notin {NULL, n}

\* C6: a resumption of a superseded load (after its fetch, after its clock
\* resume) changes neither the cache nor the loading or error state and
\* starts no playback.
C6_SupersededLoadHasNoEffect ==
  [][\A n \in Loads :
       (~loads[n].active /\ loads[n].pc \in {"fetch", "resume"}
        /\ loads'[n].pc # loads[n].pc)
       => /\ audioCache' = audioCache
          /\ isLoading' = isLoading
          /\ error' = error
          /\ sourceRef' = sourceRef
          /\ started' = started]_vars

\* C7: when a load completes (cache hit, or fetch resolved and decoded) it
\* goes on to play the chunk exactly if isPlaying is true at that moment.
C7_PlaysIffIntentAtCompletion ==
  [][\A n \in Loads :
       (loads[n].pc \in {"none", "timer", "fetch"}
        /\ loads'[n].pc \in Completed)
       => (loads'[n].pc \in {"resume", "played"} <=> isPlaying')]_vars

\* C8: in a rapid sequence of requests for uncached chunks, each made before
\* the debounce timer of the one before ran out, no fetch is started while
\* the last timer is pending, and after it fired exactly one fetch has been
\* started, for the last chunk of the sequence.
C8_DebounceOneFetchForLast ==
  (playerMounted /\ burst # <<>>)
    => IF loads[nLoads].pc = "timer"
       THEN burstFetches = <<>>
       ELSE burstFetches = <<burst[Len(burst)]>>

\* C8 witness: a rapid sequence of two or more chunk changes has ended in
\* a fetch.
C8_Witness ==
  /\ playerMounted
  /\ Len(burst) >= 2
  /\ burst[1] # burst[Len(burst)]
  /\ burstFetches = <<burst[Len(burst)]>>

\* C9 as stated: over all requests for a chunk identifier at most one
\* synthesis fetch is started (counting only fetches that were not
\* superseded, so that the duplicate fetches of C4 are left aside).
C9_AtMostOneFetchPerChunk ==
  \A c \in Chunks : Cardinality(Fetched(c)) <= 1

\* C9 amended: a fetch is started only for a chunk identifier the cache has
\* no entry for, and a request made for a cached identifier is served from
\* the cache at once, with no fetch.
C9_NoFetchOnceCached ==
  [][\A n \in Loads :
       /\ (loads'[n].fetched /\ ~loads[n].fetched)
            => audioCache[loads'[n].chunk] = NULL
       /\ (loads[n].pc = "none" /\ loads'[n].pc # "none"
           /\ audioCache[loads'[n].chunk] # NULL)
            => (loads'[n].pc \in Completed /\ ~loads'[n].fetched)]_vars

\* C9 witness: a second request for a chunk was served from the cache the
\* first request's fetch had filled.
C9_Witness ==
  \E m, n \in Loads :
    /\ m < n /\ loads[m].chunk = loads[n].chunk
    /\ loads[m].fetched /\ audioCache[loads[m].chunk] = m
    /\ loads[n].pc \in Completed /\ ~loads[n].fetched

\* C21: when the fetch or the decoding of a load that was not superseded
\* fails, the error is shown, the loading state is cleared, the cache is
\* left as it was and no playback is started.
C21_FailureShowsErrorOnly ==
  [][\A n \in Loads :
       (loads[n].pc = "fetch" /\ loads[n].active /\ loads'[n].pc = "failed")
       => /\ error' /\ ~isLoading'
          /\ audioCache' = audioCache
          /\ audioCache'[loads[n].chunk] = NULL
          /\ sourceRef' = sourceRef
          /\ started' = started]_vars

\* C21 witness: the fetch of the load in force has failed.
C21_Witness ==
  \E n \in Loads :
    /\ loads[n].pc = "failed" /\ loads[n].active /\ loads[n].fetched
    /\ error /\ ~isLoading /\ audioCache[loads[n].chunk] = NULL

\* C22: a load starts at most one fetch, and while the load that failed is
\* still the last one requested (no retry, no chunk change since) no fetch
\* is started at all.
C22_NoFetchAfterFailureByItself ==
  [][\A n \in Loads :
       (loads'[n].pc = "fetch" /\ loads[n].pc # "fetch")
       => (~loads[n].fetched /\ loads[nLoads].pc # "failed")]_vars

\* C22 witness: after a failed fetch, a retry has led to another fetch of
\* the same chunk.
C22_Witness ==
  \E m, n \in Loads :
    /\ m < n /\ loads[m].pc = "failed" /\ loads[m].fetched
    /\ loads[n].pc = "fetch" /\ loads[n].chunk = loads[m].chunk
    /\ \A k \in Loads : (m < k /\ k <= n) => loads[k].chunk = loads[m].chunk

\* C23: the sources that are started and not stopped are at most one, the
\* one sourceRef holds: a playback that starts while a source is current
\* has stopped it first.
C23_OneCurrentSource ==
  /\ Cardinality(started) <= 1
  /\ started = IF sourceRef.id = NULL THEN {} ELSE {sourceRef.id}

\* C23 witness: a playback has started while a source was still current.
C23_Witness ==
  /\ replaced
  /\ sourceRef.id # NULL /\ started = {sourceRef.id}

\* C24: at most one updateProgress frame is pending, and it belongs to the
\* playback whose source is current: the frame of an earlier playback is
\* cancelled when a later one starts or when playback is stopped.
C24_OneProgressLoop ==
  /\ Cardinality(frames) <= 1
  /\ \A f \in frames : f.id = sourceRef.id /\ f.chunk = sourceRef.chunk

\* C24 witness: a playback took the place of another one whose loop was
\* pending, and the only pending frame is its own.
C24_Witness ==
  /\ replaced
  /\ frames = {[id |-> sourceRef.id, chunk |-> sourceRef.chunk]}
  /\ animationFrameRef = sourceRef.id
  /\ progress > 0

\* C25: a debounce timer that runs out starts the one fetch of its load,
\* for a chunk the cache does not hold; when the fetch of a load in force
\* resolves the cache gains the entry and, with play intent and a running
\* clock, the playback of the chunk starts.  In every playback the values
\* its loop reports never decrease and stay within 0..100, and onFinish is
\* called at most once, together with the report of 100, after which no
\* frame is pending and no source is current.
C25_FetchThenProgressThenFinish ==
  [][/\ \A n \in Loads :
          /\ (loads[n].pc = "timer" /\ loads'[n].pc \notin {"timer", "cancelled"})
               => /\ loads[n].due = 0 /\ ~loads[n].fetched
                  /\ audioCache[loads[n].chunk] = NULL
                  /\ loads'[n].pc = "fetch"
          /\ (loads[n].pc = "fetch" /\ loads'[n].pc \in Completed)
               => /\ audioCache[loads[n].chunk] = NULL
                  /\ audioCache'[loads[n].chunk] = n
          /\ (loads[n].pc = "fetch" /\ loads'[n].pc = "played")
               => /\ sourceRef'.chunk = loads[n].chunk
                  /\ reported' = -1 /\ finishCount' = 0
     /\ (reported # -1 /\ reported' # -1) => reported' >= reported
     /\ reported' \in -1..100
     /\ finishCount' <= 1
     /\ finishCount' > finishCount
          => /\ reported' = 100 /\ progress' = 100
             /\ frames' = {} /\ sourceRef'.id = NULL]_vars

\* C25 witness: a chunk was fetched after its debounce delay, cached, played
\* by its load and has finished once, past an intermediate report.
C25_Witness ==
  \E n \in Loads :
    /\ loads[n].pc = "played" /\ loads[n].fetched /\ loads[n].playing
    /\ loads[n].chunk > 1 /\ audioCache[loads[n].chunk] = n
    /\ currentChunk = loads[n].chunk /\ isPlaying /\ ~replaced
    /\ finishCount = 1 /\ lastFinished = loads[n].chunk
    /\ reported = 100 /\ progress = 100 /\ frames = {}

\* C26: a change to a chunk the cache holds runs the load within the same
\* step: no timer is armed or left pending, no fetch is started, and with
\* play intent the load goes on to play, at once when the clock is running
\* (otherwise as soon as resume() has settled).
C26_CachedChunkLoadsAtOnce ==
  [][(currentChunk' # currentChunk /\ audioCache[currentChunk'] # NULL)
     => /\ nLoads' = nLoads + 1
        /\ loads'[nLoads'].chunk = currentChunk'
        /\ loads'[nLoads'].pc \in Completed
        /\ ~loads'[nLoads'].fetched
        /\ \A m \in Loads : loads'[m].pc \notin {"timer", "fetch"}
                              \/ ~loads'[m].active
        /\ \A m \in Loads : loads'[m].pc # "timer"
        /\ isPlaying => loads'[nLoads'].pc \in {"resume", "played"}
        /\ (isPlaying /\ ctxState = "running")
             => /\ sourceRef'.id # NULL
                /\ sourceRef'.chunk = currentChunk'
                /\ started' = {sourceRef'.id}
                /\ elapsed' = 0]_vars

\* C26 witness: the last request changed to a cached chunk and its playback
\* has started with no fetch of that load.
C26_Witness ==
  /\ nLoads > 1
  /\ loads[nLoads].pc = "played" /\ ~loads[nLoads].fetched
  /\ loads[nLoads].chunk = currentChunk
  /\ loads[nLoads - 1].chunk # currentChunk
  /\ sourceRef.id # NULL /\ sourceRef.chunk = currentChunk
  /\ elapsed = 0 /\ isPlaying

\* C30: the source that is playing plays the current chunk, and onFinish is
\* called only for the current chunk.
C30_PlayingChunkIsCurrent ==
  [][/\ sourceRef'.id # NULL => sourceRef'.chunk = currentChunk'
     /\ finishCount' > finishCount => lastFinished' = currentChunk']_vars

\* the load requested last is over: loading is cleared and the current chunk
\* is in the cache or the error is shown
LastLoadDone ==
  /\ loads[nLoads].pc \in Completed \cup {"failed"}
  /\ loads[nLoads].chunk = currentChunk
  /\ ~isLoading
  /\ audioCache[currentChunk] # NULL \/ error

\* C31: when fetches settle and requests stop coming, a mounted player
\* ends up, for good, with the load requested last over: loading cleared
\* and the chunk's audio in the cache or the error state set.
C31_LoaderSettles ==
  <>[](~playerMounted \/ LastLoadDone)

\* C31 witness: after a chunk change the last load has fetched and cached
\* its chunk and loading is cleared.
C31_Witness ==
  /\ playerMounted /\ nLoads > 1 /\ LastLoadDone
  /\ loads[nLoads].fetched /\ audioCache[currentChunk] = nLoads
  /\ ~error

\* ============================================================ claims: codec

\* C27: every sample in [-1, 1] comes back from the encoding and decoding
\* within 1/32768 of its value.
C27_RoundTripWithinOneStep ==
  codecPc = "decoded"
    => /\ Len(channelData) = Len(samples)
       /\ \A i \in 1..Len(samples) :
            (samples[i] >= -SampleDen /\ samples[i] <= SampleDen)
            => LET d == channelData[i] * (SampleDen \div DecodeScale)
                          - samples[i]
               IN d * DecodeScale <= SampleDen /\ -d * DecodeScale <= SampleDen

\* C28: every element of the encoded array is the value computed at line 11
\* itself, within the signed 16-bit range, and a sample above 1 or below -1
\* is encoded as 32767 or -32768.
C28_EncodedWithinInt16 ==
  codecPc \in {"encoded", "decoded"}
    => /\ Len(int16) = Len(samples)
       /\ \A i \in 1..Len(samples) :
            /\ int16[i] \in Int16Range
            /\ int16[i] = scaled(samples[i])
            /\ samples[i] >= SampleDen => int16[i] = PosScale
            /\ samples[i] <= -SampleDen => int16[i] = -NegScale

\* C28 witness: an array with a sample above 1 and a sample below -1 has
\* been encoded.
C28_Witness ==
  /\ codecPc = "encoded"
  /\ \E i, j \in 1..Len(samples) :
       /\ samples[i] > SampleDen /\ int16[i] = PosScale
       /\ samples[j] < -SampleDen /\ int16[j] = -NegScale

====
